---------------------------- MODULE Spec2Model ----------------------------
(***************************************************************************)
(* A model of the Bucket facade of node-simperium (src/simperium/bucket.js) *)
(* and of the frame splitter (src/simperium/util/parse_message.js).         *)
(*                                                                         *)
(* The bucket runs on one event loop.  Every public call, and every event  *)
(* or hook invocation of a channel, creates a call record; the             *)
(* asynchronous collaborators (the bucket store and the channel) complete  *)
(* the pending step of any call, in any order.  The `then` handlers that   *)
(* a completion makes runnable are microtasks: they run before the next    *)
(* completion is delivered, so each completion and the handlers it         *)
(* triggers form one step.  `log` records, in the order they happen, the   *)
(* effects an observer can see: store operations, calls made on the        *)
(* channel and events the bucket emits.                                    *)
(*                                                                         *)
(* The store follows the BucketStore interface documented in bucket.js: an *)
(* operation calls back with a result or with an error.  The channel       *)
(* follows test/simperium/mock-channel.js: update resolves with the object *)
(* it was given.  The channel's treatment of inbound changes (ghosts and   *)
(* the versions of changes) follows the protocol description; it drives    *)
(* the bucket's onChannelUpdate in the specification InboundSpec.          *)
(***************************************************************************)
EXTENDS Integers, Sequences, FiniteSets, TLC

(***************************************************************************)
(* Bounds of the model.                                                    *)
(***************************************************************************)
MaxCalls == 2
MaxFrameLen == 4
MaxChanges == 3
MaxVersion == 2

(***************************************************************************)
(* JavaScript values, as tagged records.                                   *)
(***************************************************************************)
Undefined == [t |-> "undefined"]
Null == [t |-> "null"]
Fn == [t |-> "function"]
\* A callback that throws when it is called, and what it throws.
FnThrows == [t |-> "function", throws |-> TRUE]
Thrown == [t |-> "error", v |-> "Thrown"]
JsTrue == [t |-> "boolean", v |-> TRUE]
JsFalse == [t |-> "boolean", v |-> FALSE]
JsBool(b) == IF b THEN JsTrue ELSE JsFalse
Obj(name) == [t |-> "object", v |-> name]
StoreError == [t |-> "error", v |-> "StoreError"]
ChannelError == [t |-> "error", v |-> "ChannelError"]

\* An options object literal: { sync: s } or, with has = FALSE, {}.
Options(has, s) == [t |-> "object", hasSync |-> has, sync |-> s]
\* The object literal { original, patch, isIndexing } built by onChannelUpdate.
RemoteInfo(original, patch, isIndexing) ==
    [t |-> "object", original |-> original, patch |-> patch, isIndexing |-> isIndexing]

\* !! v, the truth value JavaScript gives a value in a condition.
Truthy(v) ==
    /\ v.t \notin {"undefined", "null"}
    /\ (v.t = "boolean") => v.v

\* typeof v === 'function'
IsFunction(v) == v.t = "function"

\* Whether calling the function f ends with an exception.
Throws(f) == f = FnThrows

\* options.sync: reading a key an object does not have gives undefined.
GetSync(options) == IF options.hasSync THEN options.sync ELSE Undefined

(***************************************************************************)
(* Input domains.                                                          *)
(***************************************************************************)
Ids == {"a", "b"}
UuidPool == {"u1", "u2", "u3"}
AllIds == Ids \cup UuidPool
Data == {Obj("d1"), Obj("d2")}
Channels == {"ch1", "ch2"}
Absent == [t |-> "absent"]

\* The argument forms of update( id, data, remoteUpdateInfo, options, callback ).
UpdateForms ==
    { <<Undefined, Undefined, Undefined>>,
      <<Fn, Undefined, Undefined>>,
      <<FnThrows, Undefined, Undefined>>,
      <<Fn, Options(TRUE, JsFalse), Undefined>>,
      <<Undefined, Fn, Undefined>>,
      <<Undefined, Null, Undefined>>,
      <<Undefined, Null, Fn>>,
      <<Undefined, Options(FALSE, Undefined), Undefined>>,
      <<Undefined, Options(TRUE, JsTrue), Fn>>,
      <<Undefined, Options(TRUE, JsFalse), Undefined>>,
      <<Undefined, Options(TRUE, JsFalse), Fn>> }

\* The `update` events a channel emits: ( id, data, original, patch, isIndexing ).
ChannelUpdateEvents ==
    { <<"a", Obj("d1"), Obj("d2"), Obj("p1"), JsFalse>>,
      <<"a", Obj("d2"), Obj("d1"), Obj("p2"), JsTrue>>,
      <<"b", Obj("d1"), Obj("d1"), Obj("p1"), JsTrue>>,
      <<"b", Obj("d2"), Obj("p1"), Obj("d1"), Undefined>> }

\* Change resolvers an application installs: what the function returns, and
\* whether it returns it wrapped in a Promise.
Resolvers ==
    { [t |-> "function", ret |-> r, promised |-> FALSE] :
        r \in {Null, Undefined, JsFalse, Obj("d2")} }
    \cup { [t |-> "function", ret |-> r, promised |-> TRUE] : r \in {Null, Obj("d2")} }

VARIABLES
    store,           \* the bucket store: id -> Absent or [data, isIndexing]
    isIndexing,      \* this.isIndexing
    channel,         \* this.channel
    listeners,       \* per channel, how often the bucket's handlers are registered
    hooked,          \* per channel, whether setChannel installed the network-change hook
    changeResolver,  \* this.changeResolver
    allocated,       \* the ids uuid() has returned
    calls,           \* the call records, in call order
    log,             \* the observable effects, in the order they happened
    frame,           \* parse_message: the frame to split
    parsed,          \* parse_message: the result, or NotParsed
    ghost            \* the channel's ghosts: id -> [version, data]

vars == <<store, isIndexing, channel, listeners, hooked, changeResolver,
          allocated, calls, log, frame, parsed, ghost>>

NotParsed == [command |-> <<"?">>, data |-> <<"?">>]

(***************************************************************************)
(* Log entries.                                                            *)
(***************************************************************************)
Entry(k, eff, args, ok) == [call |-> k, eff |-> eff, args |-> args, ok |-> ok]
Emit(k, name, args) == Entry(k, "emit", <<name>> \o args, TRUE)

\* The object a store hands to its callback for ( id, data, isIndexing ).
BucketObject(id, data, indexing) ==
    [t |-> "object", id |-> id, data |-> data, isIndexing |-> indexing]


(***************************************************************************)
(* Call records.                                                           *)
(***************************************************************************)
\* A variant of Pending that leaves this.isIndexing out of the store call, so
\* that the store flags nothing as indexed.
Pending_NotIndexing(api, pc, id, data, rui, options, callback, raw) ==
    [api |-> api, pc |-> pc, id |-> id, data |-> data, remoteUpdateInfo |-> rui,
     options |-> options, callback |-> callback, raw |-> raw,
     isIndexing |-> FALSE, state |-> "pending", value |-> Undefined,
     cbCalls |-> <<>>]

\* A call that waits for its store or channel step.
Pending(api, pc, id, data, rui, options, callback, raw) ==
    [api |-> api, pc |-> pc, id |-> id, data |-> data, remoteUpdateInfo |-> rui,
     options |-> options, callback |-> callback, raw |-> raw,
     isIndexing |-> isIndexing, state |-> "pending", value |-> Undefined,
     cbCalls |-> <<>>]

\* callbackAsPromise: the store reports ( error, result ); an error rejects.
CallbackAsPromise(error, result) ==
    IF Truthy(error) THEN [state |-> "rejected", value |-> error]
    ELSE [state |-> "fulfilled", value |-> result]

\* A variant of DeprecateCallback written as promise.then( ok ).catch( err ):
\* an exception thrown by the callback on success reaches the error handler,
\* which calls the callback again.
DeprecateCallback_Catch(callback, st, val) ==
    LET args == IF st = "fulfilled" THEN <<Null, val>> ELSE <<val>>
    IN IF IsFunction(callback)
       THEN IF Throws(callback)
            THEN IF st = "fulfilled"
                 THEN [state |-> "rejected", value |-> Thrown,
                       cbCalls |-> <<args, <<Thrown>> >>]
                 ELSE [state |-> "rejected", value |-> Thrown, cbCalls |-> <<args>>]
            ELSE [state |-> "fulfilled", value |-> val, cbCalls |-> <<args>>]
       ELSE [state |-> st, value |-> val, cbCalls |-> <<>>]

\* deprecateCallback( callback, promise ): the promise handed back to the
\* caller and the calls made on the callback, for a task that settled as
\* ( st, val ).  A callback that throws makes the `then` handler throw, which
\* rejects the promise handed back; the other handler of the same `then` is
\* not run.
DeprecateCallback(callback, st, val) ==
    LET args == IF st = "fulfilled" THEN <<Null, val>> ELSE <<val>>
    IN IF IsFunction(callback)
       THEN IF Throws(callback)
            THEN [state |-> "rejected", value |-> Thrown, cbCalls |-> <<args>>]
            ELSE [state |-> "fulfilled", value |-> val, cbCalls |-> <<args>>]
       ELSE [state |-> st, value |-> val, cbCalls |-> <<>>]

\* The call record once its task has settled as ( st, val ).
Settled(c, st, val) ==
    LET d == DeprecateCallback(c.callback, st, val)
    IN [c EXCEPT !.pc = "done", !.state = d.state, !.value = d.value,
                 !.cbCalls = d.cbCalls]

\* Lines 304-314 of update: where the callback is, and the options in force.
NormalizeUpdateArgs(rui, options, callback) ==
    LET cb == IF IsFunction(rui) THEN rui
              ELSE IF IsFunction(options) THEN options ELSE callback
        o1 == IF IsFunction(rui) \/ IsFunction(options)
              THEN Options(TRUE, JsTrue) ELSE options
        o2 == IF ~Truthy(o1) THEN Options(TRUE, JsTrue) ELSE o1
    IN [remoteUpdateInfo |-> rui, options |-> o2, callback |-> cb]

\* this.update( id, data, remoteUpdateInfo, options, callback ) up to the
\* point where storeAPI.update has been started.
BucketUpdate(api, id, data, rui, options, callback) ==
    LET n == NormalizeUpdateArgs(rui, options, callback)
    IN Pending(api, "storeUpdate", id, data, n.remoteUpdateInfo, n.options,
               n.callback, <<rui, options, callback>>)

\* The second argument of this.channel.update( bucketObject, options.sync ).
ChannelUpdateSync(options) == GetSync(options)

\* A variant of UpdateThenChannel that announces the update before the channel
\* has answered.
UpdateThenChannel_EmitsEarly(k, c, obj) ==
    << Emit(k, "update", <<c.id, obj.data, c.remoteUpdateInfo>>),
       Entry(k, "channel.update", <<channel, obj, GetSync(c.options)>>, TRUE) >>

\* What follows a successful store write in update: the channel call.
UpdateThenChannel(k, c, obj) ==
    << Entry(k, "channel.update", <<channel, obj, ChannelUpdateSync(c.options)>>, TRUE) >>

\* What follows the channel's answer in update: the `update` event.
UpdateThenEmit(k, c, obj) ==
    << Emit(k, "update", <<c.id, obj.data, c.remoteUpdateInfo>>) >>

\* A variant of RemoveThen that tells the channel before the listeners.
RemoveThen_ChannelFirst(k, c) ==
    << Entry(k, "channel.remove", <<channel, c.id>>, TRUE),
       Emit(k, "remove", <<c.id>>) >>

\* What follows a successful store removal in remove.
RemoveThen(k, c) ==
    << Emit(k, "remove", <<c.id>>),
       Entry(k, "channel.remove", <<channel, c.id>>, TRUE) >>

\* The stores a bucket may be constructed over: an empty one, and one that
\* already holds an object from an earlier session.
InitialStores ==
    { [i \in AllIds |-> Absent],
      [i \in AllIds |-> IF i = "a" THEN [data |-> Obj("d1"), isIndexing |-> FALSE]
                                  ELSE Absent] }

\* The ghosts a channel holds for a store: an object kept from an earlier
\* session has been acknowledged once, an id without an object never.
GhostOf(s) ==
    [i \in Ids |-> IF s[i] = Absent THEN [version |-> 0, data |-> Undefined]
                                   ELSE [version |-> 1, data |-> s[i].data]]

Init ==
    /\ store \in InitialStores
    /\ isIndexing = FALSE
    /\ channel = "ch1"
    /\ listeners = [c \in Channels |-> IF c = "ch1" THEN 1 ELSE 0]
    /\ hooked = [c \in Channels |-> c = "ch1"]
    /\ changeResolver = Undefined
    /\ allocated = {}
    /\ calls = <<>>
    /\ log = <<>>
    /\ frame = <<>>
    /\ parsed = NotParsed
    /\ ghost = GhostOf(store)

CanCall == Len(calls) < MaxCalls
NextCall == Len(calls) + 1

(***************************************************************************)
(* Bucket.prototype.update and the steps of its task.                      *)
(***************************************************************************)
Update(id, data, form) ==
    /\ CanCall
    /\ calls' = Append(calls, BucketUpdate("update", id, data, form[1], form[2], form[3]))
    /\ UNCHANGED <<store, isIndexing, channel, listeners, hooked, changeResolver,
                   allocated, log, frame, parsed, ghost>>

\* store.update calls back with the stored object: the first `then` of the
\* task calls the channel.
StoreUpdateOk(k) ==
    LET c == calls[k]
        obj == BucketObject(c.id, c.data, c.isIndexing)
    IN /\ c.pc = "storeUpdate"
       /\ store' = [store EXCEPT ![c.id] = [data |-> c.data, isIndexing |-> c.isIndexing]]
       /\ log' = log \o << Entry(k, "store.update", <<c.id, c.data, JsBool(c.isIndexing)>>, TRUE) >>
                     \o UpdateThenChannel(k, c, obj)
       /\ calls' = [calls EXCEPT ![k] = [c EXCEPT !.pc = "channelUpdate", !.value = obj]]
       /\ UNCHANGED <<isIndexing, channel, listeners, hooked, changeResolver,
                      allocated, frame, parsed, ghost>>

\* store.update calls back with an error: the task rejects.
StoreUpdateFail(k) ==
    LET c == calls[k]
        p == CallbackAsPromise(StoreError, Undefined)
    IN /\ c.pc = "storeUpdate"
       /\ log' = Append(log, Entry(k, "store.update", <<c.id, c.data, JsBool(c.isIndexing)>>, FALSE))
       /\ calls' = [calls EXCEPT ![k] = Settled(c, p.state, p.value)]
       /\ UNCHANGED <<store, isIndexing, channel, listeners, hooked, changeResolver,
                      allocated, frame, parsed, ghost>>

\* channel.update resolves with the object it was given: the second `then`
\* emits `update` and the task resolves.
ChannelUpdateResolved(k) ==
    LET c == calls[k]
        obj == c.value
    IN /\ c.pc = "channelUpdate"
       /\ log' = log \o UpdateThenEmit(k, c, obj)
       /\ calls' = [calls EXCEPT ![k] = Settled(c, "fulfilled", obj)]
       /\ UNCHANGED <<store, isIndexing, channel, listeners, hooked, changeResolver,
                      allocated, frame, parsed, ghost>>

(***************************************************************************)
(* Bucket.prototype.add.                                                   *)
(***************************************************************************)
\* A variant of Uuid that may hand out an id twice.
Uuid_Repeats == UuidPool

\* The ids uuid() may return: version 4 uuids do not repeat.
Uuid == UuidPool \ allocated

Add(data, callback) ==
    /\ CanCall
    /\ \E id \in Uuid :
        /\ allocated' = allocated \cup {id}
        /\ calls' = Append(calls, BucketUpdate("add", id, data, callback, Undefined, Undefined))
    /\ UNCHANGED <<store, isIndexing, channel, listeners, hooked, changeResolver,
                   log, frame, parsed, ghost>>

(***************************************************************************)
(* Bucket.prototype.remove.                                                *)
(***************************************************************************)
Remove(id, callback) ==
    /\ CanCall
    /\ calls' = Append(calls, Pending("remove", "storeRemove", id, Undefined, Undefined,
                                      Undefined, callback, <<id, callback>>))
    /\ UNCHANGED <<store, isIndexing, channel, listeners, hooked, changeResolver,
                   allocated, log, frame, parsed, ghost>>

StoreRemoveOk(k) ==
    LET c == calls[k]
    IN /\ c.pc = "storeRemove"
       /\ store' = [store EXCEPT ![c.id] = Absent]
       /\ log' = log \o << Entry(k, "store.remove", <<c.id>>, TRUE) >> \o RemoveThen(k, c)
       /\ calls' = [calls EXCEPT ![k] = Settled(c, "fulfilled", Undefined)]
       /\ UNCHANGED <<isIndexing, channel, listeners, hooked, changeResolver,
                      allocated, frame, parsed, ghost>>

StoreRemoveFail(k) ==
    LET c == calls[k]
        p == CallbackAsPromise(StoreError, Undefined)
    IN /\ c.pc = "storeRemove"
       /\ log' = Append(log, Entry(k, "store.remove", <<c.id>>, FALSE))
       /\ calls' = [calls EXCEPT ![k] = Settled(c, p.state, p.value)]
       /\ UNCHANGED <<store, isIndexing, channel, listeners, hooked, changeResolver,
                      allocated, frame, parsed, ghost>>

(***************************************************************************)
(* Bucket.prototype.get, find and touch.                                   *)
(***************************************************************************)
\* What store.get reports for an id: the stored object, or null.
StoreGet(id) ==
    IF store[id] = Absent THEN Null
    ELSE BucketObject(id, store[id].data, store[id].isIndexing)

\* What store.find reports: every stored object.
StoreFind ==
    [t |-> "array", v |-> {StoreGet(i) : i \in {j \in AllIds : store[j] # Absent}}]

Get(id, callback) ==
    /\ CanCall
    /\ calls' = Append(calls, Pending("get", "storeGet", id, Undefined, Undefined,
                                      Undefined, callback, <<id, callback>>))
    /\ UNCHANGED <<store, isIndexing, channel, listeners, hooked, changeResolver,
                   allocated, log, frame, parsed, ghost>>

StoreGetOk(k) ==
    LET c == calls[k]
        obj == StoreGet(c.id)
    IN /\ c.pc = "storeGet"
       /\ log' = Append(log, Entry(k, "store.get", <<c.id, obj>>, TRUE))
       /\ calls' = [calls EXCEPT ![k] = Settled(c, "fulfilled", obj)]
       /\ UNCHANGED <<store, isIndexing, channel, listeners, hooked, changeResolver,
                      allocated, frame, parsed, ghost>>

Find(callback) ==
    /\ CanCall
    /\ calls' = Append(calls, Pending("find", "storeFind", "", Undefined, Undefined,
                                      Undefined, callback, <<callback>>))
    /\ UNCHANGED <<store, isIndexing, channel, listeners, hooked, changeResolver,
                   allocated, log, frame, parsed, ghost>>

StoreFindOk(k) ==
    LET c == calls[k]
    IN /\ c.pc = "storeFind"
       /\ log' = Append(log, Entry(k, "store.find", <<StoreFind>>, TRUE))
       /\ calls' = [calls EXCEPT ![k] = Settled(c, "fulfilled", StoreFind)]
       /\ UNCHANGED <<store, isIndexing, channel, listeners, hooked, changeResolver,
                      allocated, frame, parsed, ghost>>

Touch(id, callback) ==
    /\ CanCall
    /\ calls' = Append(calls, Pending("touch", "touchGet", id, Undefined, Undefined,
                                      Undefined, callback, <<id, callback>>))
    /\ UNCHANGED <<store, isIndexing, channel, listeners, hooked, changeResolver,
                   allocated, log, frame, parsed, ghost>>

\* store.get answers touch: an object found is handed to
\* this.update( object.id, object.data ), nothing is done otherwise.
TouchGetOk(k) ==
    LET c == calls[k]
        obj == StoreGet(c.id)
        u == BucketUpdate("touch", obj.id, obj.data, Undefined, Undefined, Undefined)
    IN /\ c.pc = "touchGet"
       /\ log' = Append(log, Entry(k, "store.get", <<c.id, obj>>, TRUE))
       /\ calls' = [calls EXCEPT ![k] =
                      IF Truthy(obj)
                      THEN [u EXCEPT !.callback = c.callback, !.raw = c.raw]
                      ELSE Settled(c, "fulfilled", Undefined)]
       /\ UNCHANGED <<store, isIndexing, channel, listeners, hooked, changeResolver,
                      allocated, frame, parsed, ghost>>

\* store.get or store.find calls back with an error.
StoreReadFail(k) ==
    LET c == calls[k]
        p == CallbackAsPromise(StoreError, Undefined)
        eff == IF c.pc = "storeFind" THEN "store.find" ELSE "store.get"
    IN /\ c.pc \in {"storeGet", "storeFind", "touchGet", "localStateGet"}
       /\ log' = Append(log, Entry(k, eff, <<c.id>>, FALSE))
       /\ calls' = [calls EXCEPT ![k] = Settled(c, p.state, p.value)]
       /\ UNCHANGED <<store, isIndexing, channel, listeners, hooked, changeResolver,
                      allocated, frame, parsed, ghost>>

(***************************************************************************)
(* getVersion, getRevisions, hasLocalChanges and reload.                   *)
(***************************************************************************)
\* A variant of ChannelCallEffects that also announces the call to the
\* bucket's listeners.
ChannelCallEffects_Emits(k, api, id) ==
    << Entry(k, "channel." \o api, <<channel, id>>, TRUE), Emit(k, api, <<id>>) >>

\* The effects of starting one of the calls that only ask the channel.
ChannelCallEffects(k, api, id) ==
    << Entry(k, "channel." \o api, <<channel, id>>, TRUE) >>

\* The call record of one of them, waiting for the channel's promise.
ChannelCallPending(api, id, callback) ==
    Pending(api, "channelCall", id, Undefined, Undefined, Undefined, callback,
            <<id, callback>>)

GetVersion(id, callback) ==
    /\ CanCall
    /\ calls' = Append(calls, ChannelCallPending("getVersion", id, callback))
    /\ log' = log \o ChannelCallEffects(NextCall, "getVersion", id)
    /\ UNCHANGED <<store, isIndexing, channel, listeners, hooked, changeResolver,
                   allocated, frame, parsed, ghost>>

GetRevisions(id, callback) ==
    /\ CanCall
    /\ calls' = Append(calls, ChannelCallPending("getRevisions", id, callback))
    /\ log' = log \o ChannelCallEffects(NextCall, "getRevisions", id)
    /\ UNCHANGED <<store, isIndexing, channel, listeners, hooked, changeResolver,
                   allocated, frame, parsed, ghost>>

HasLocalChanges(callback) ==
    /\ CanCall
    /\ calls' = Append(calls, ChannelCallPending("hasLocalChanges", "", callback))
    /\ log' = log \o ChannelCallEffects(NextCall, "hasLocalChanges", "")
    /\ UNCHANGED <<store, isIndexing, channel, listeners, hooked, changeResolver,
                   allocated, frame, parsed, ghost>>

\* The channel's promise resolves.
ChannelCallResolved(k) ==
    LET c == calls[k]
    IN /\ c.pc = "channelCall"
       /\ calls' = [calls EXCEPT ![k] = Settled(c, "fulfilled", [t |-> "result", v |-> c.api])]
       /\ UNCHANGED <<store, isIndexing, channel, listeners, hooked, changeResolver,
                      allocated, log, frame, parsed, ghost>>

\* reload returns nothing and takes no callback.
Reload ==
    /\ CanCall
    /\ calls' = Append(calls, [Pending("reload", "done", "", Undefined, Undefined,
                                       Undefined, Undefined, <<>>)
                               EXCEPT !.state = "returned"])
    /\ log' = log \o ChannelCallEffects(NextCall, "reload", "")
    /\ UNCHANGED <<store, isIndexing, channel, listeners, hooked, changeResolver,
                   allocated, frame, parsed, ghost>>

(***************************************************************************)
(* setChannel and beforeNetworkChange.                                     *)
(***************************************************************************)
\* A call that is over when it returns.
Returned(api, id, data, raw) ==
    [Pending(api, "done", id, data, Undefined, Undefined, Undefined, raw)
     EXCEPT !.state = "returned"]

\* A variant of RemoveListener that leaves the old channel's handlers in place.
RemoveListener_Forgets(l, c) == l

\* removeListener takes one registration away, if there is one.
RemoveListener(l, c) == [l EXCEPT ![c] = IF l[c] > 0 THEN l[c] - 1 ELSE 0]

\* on adds a registration.
AddListener(l, c) == [l EXCEPT ![c] = l[c] + 1]

SetChannel(c) ==
    /\ CanCall
    /\ listeners' = AddListener(RemoveListener(listeners, channel), c)
    /\ channel' = c
    /\ hooked' = [hooked EXCEPT ![c] = TRUE]
    /\ calls' = Append(calls, Returned("setChannel", c, Undefined, <<c>>))
    /\ UNCHANGED <<store, isIndexing, changeResolver, allocated, log, frame, parsed, ghost>>

BeforeNetworkChange(resolver) ==
    /\ CanCall
    /\ changeResolver' = resolver
    /\ calls' = Append(calls, Returned("beforeNetworkChange", "", resolver, <<resolver>>))
    /\ UNCHANGED <<store, isIndexing, channel, listeners, hooked, allocated, log,
                   frame, parsed, ghost>>

(***************************************************************************)
(* The hook setChannel hands to channel.beforeNetworkChange.               *)
(***************************************************************************)
\* A variant of ChangeResolverResult that never asks the installed resolver.
ChangeResolverResult_Ignored(r) == Null

\* What the first promise of the hook resolves to: the value the installed
\* resolver returns (or the value its promise resolves to), null without a
\* resolver.
ChangeResolverResult(r) == IF Truthy(r) THEN r.ret ELSE Null

\* Whether the hook answers with the resolver's value rather than the store's.
UsesLocalState(localState) == Truthy(localState)

\* Channel c asks for the local state of id before it applies a change.
NetworkChange(c, id) ==
    LET v == ChangeResolverResult(changeResolver)
        h == Pending("networkChange", "localStateGet", id, v, Undefined, Undefined,
                     Undefined, <<c, id>>)
    IN /\ CanCall
       /\ hooked[c]
       /\ calls' = Append(calls, IF UsesLocalState(v) THEN Settled(h, "fulfilled", v) ELSE h)
       /\ UNCHANGED <<store, isIndexing, channel, listeners, hooked, changeResolver,
                      allocated, log, frame, parsed, ghost>>

\* localStateForKey: the data of the stored object, undefined without one.
LocalStateGetOk(k) ==
    LET c == calls[k]
        obj == StoreGet(c.id)
    IN /\ c.pc = "localStateGet"
       /\ log' = Append(log, Entry(k, "store.get", <<c.id, obj>>, TRUE))
       /\ calls' = [calls EXCEPT ![k] =
                      Settled(c, "fulfilled", IF Truthy(obj) THEN obj.data ELSE Undefined)]
       /\ UNCHANGED <<store, isIndexing, channel, listeners, hooked, changeResolver,
                      allocated, frame, parsed, ghost>>

(***************************************************************************)
(* The events of a channel and the bucket's handlers for them.             *)
(***************************************************************************)
\* An event nobody listens to.
Unheard(event, c, args) ==
    [Returned(event, "", Undefined, <<c>> \o args) EXCEPT !.state = "unheard"]

\* The handler runs once per registration.
Handlers(c, h) == [i \in 1..listeners[c] |-> h]

\* A variant of OnChannelUpdateArgs that leaves the options out, so that the
\* remote change is synced like a local one.
OnChannelUpdateArgs_Resubmits(ev) ==
    [id |-> ev[1], data |-> ev[2],
     remoteUpdateInfo |-> RemoteInfo(ev[3], ev[4], ev[5]),
     options |-> Undefined]

\* The arguments onChannelUpdate passes on to this.update.
OnChannelUpdateArgs(ev) ==
    [id |-> ev[1], data |-> ev[2],
     remoteUpdateInfo |-> RemoteInfo(ev[3], ev[4], ev[5]),
     options |-> Options(TRUE, JsFalse)]

ChannelUpdate(c, ev) ==
    LET a == OnChannelUpdateArgs(ev)
        h == [BucketUpdate("onChannelUpdate", a.id, a.data, a.remoteUpdateInfo,
                           a.options, Undefined) EXCEPT !.raw = <<c>> \o ev]
        new == IF listeners[c] = 0 THEN <<Unheard("onChannelUpdate", c, ev)>>
               ELSE Handlers(c, h)
    IN /\ Len(calls) + Len(new) <= MaxCalls
       /\ calls' = calls \o new
       /\ UNCHANGED <<store, isIndexing, channel, listeners, hooked, changeResolver,
                      allocated, log, frame, parsed, ghost>>

ChannelRemove(c, id) ==
    LET h == Pending("onChannelRemove", "storeRemove", id, Undefined, Undefined,
                     Undefined, Undefined, <<c, id>>)
        new == IF listeners[c] = 0 THEN <<Unheard("onChannelRemove", c, <<id>>)>>
               ELSE Handlers(c, h)
    IN /\ Len(calls) + Len(new) <= MaxCalls
       /\ calls' = calls \o new
       /\ UNCHANGED <<store, isIndexing, channel, listeners, hooked, changeResolver,
                      allocated, log, frame, parsed, ghost>>

\* onChannelIndexingStateChange
ChannelIndexingStateChange(c, b) ==
    LET h == Returned("onChannelIndexingStateChange", "", JsBool(b), <<c, JsBool(b)>>)
        new == IF listeners[c] = 0
               THEN <<Unheard("onChannelIndexingStateChange", c, <<JsBool(b)>>)>>
               ELSE Handlers(c, h)
    IN /\ Len(calls) + Len(new) <= MaxCalls
       /\ calls' = calls \o new
       /\ isIndexing' = IF listeners[c] = 0 THEN isIndexing ELSE b
       /\ log' = log \o [i \in 1..(IF b THEN listeners[c] ELSE 0) |->
                           Emit(Len(calls) + i, "indexing", <<>>)]
       /\ UNCHANGED <<store, channel, listeners, hooked, changeResolver, allocated,
                      frame, parsed, ghost>>

\* The call records an event of channel c leaves: one per registered handler.
Heard(c, event, args) ==
    IF listeners[c] = 0 THEN <<Unheard(event, c, args)>>
    ELSE Handlers(c, Returned(event, "", Undefined, <<c>> \o args))

\* onChannelIndex and onChannelError are emit bound to the event's name.
Forwarded(c, event, args) ==
    [i \in 1..listeners[c] |-> Emit(Len(calls) + i, event, args)]

ChannelIndex(c) ==
    /\ Len(calls) + Len(Heard(c, "onChannelIndex", <<>>)) <= MaxCalls
    /\ calls' = calls \o Heard(c, "onChannelIndex", <<>>)
    /\ log' = log \o Forwarded(c, "index", <<>>)
    /\ UNCHANGED <<store, isIndexing, channel, listeners, hooked, changeResolver,
                   allocated, frame, parsed, ghost>>

ChannelErrorEvent(c) ==
    /\ Len(calls) + Len(Heard(c, "onChannelError", <<ChannelError>>)) <= MaxCalls
    /\ calls' = calls \o Heard(c, "onChannelError", <<ChannelError>>)
    /\ log' = log \o Forwarded(c, "error", <<ChannelError>>)
    /\ UNCHANGED <<store, isIndexing, channel, listeners, hooked, changeResolver,
                   allocated, frame, parsed, ghost>>

(***************************************************************************)
(* The channel's handling of an inbound change, after the protocol          *)
(* description: a change of an id carries the version it leads to ( ev )    *)
(* and the data the object has at that version.  A change that is applied  *)
(* moves the ghost to ( ev, data ) and is announced with an `update` event, *)
(* which the bucket's onChannelUpdate handles.                             *)
(***************************************************************************)
\* The inbound changes the channel has been handed so far.
Changes == {i \in 1..Len(log) : log[i].eff = "change"}

\* A variant of Discards that only drops changes older than the ghost.
Discards_OnlyOlder(ev, version) == ev < version

\* Idempotence: a change whose ev is not above the ghost's version is dropped.
Discards(ev, version) == ev <= version

\* The `update` event the channel emits for an applied change.
ChangeEvent(id, data, g) == <<id, data, g.data, Obj("p1"), JsBool(isIndexing)>>

ReceiveChange(id, ev, data) ==
    LET g == ghost[id]
        a == OnChannelUpdateArgs(ChangeEvent(id, data, g))
        h == [BucketUpdate("onChannelUpdate", a.id, a.data, a.remoteUpdateInfo,
                           a.options, Undefined)
              EXCEPT !.raw = <<channel>> \o ChangeEvent(id, data, g)]
        new == IF Discards(ev, g.version) THEN <<>> ELSE Handlers(channel, h)
    IN /\ Cardinality(Changes) < MaxChanges
       /\ Len(calls) + Len(new) <= MaxCalls
       /\ log' = Append(log, Entry(0, "change", <<id, ev, data>>, new # <<>>))
       /\ ghost' = IF Discards(ev, g.version) THEN ghost
                   ELSE [ghost EXCEPT ![id] = [version |-> ev, data |-> data]]
       /\ calls' = calls \o new
       /\ UNCHANGED <<store, isIndexing, channel, listeners, hooked, changeResolver,
                      allocated, frame, parsed>>

InboundNext ==
    \/ \E id \in Ids, ev \in 1..MaxVersion, data \in Data : ReceiveChange(id, ev, data)
    \/ \E k \in 1..Len(calls) : StoreUpdateOk(k)
    \/ \E k \in 1..Len(calls) : StoreUpdateFail(k)
    \/ \E k \in 1..Len(calls) : ChannelUpdateResolved(k)

InboundSpec == Init /\ [][InboundNext]_vars

(***************************************************************************)
(* parse_message.                                                          *)
(***************************************************************************)
Chars == {":", "0", "a"}
Frames == UNION {[1..n -> Chars] : n \in 0..MaxFrameLen}

\* A variant of IndexOf that finds the last ch, as lastIndexOf does.
IndexOf_Last(s, ch) ==
    IF \E i \in 1..Len(s) : s[i] = ch
    THEN (CHOOSE i \in 1..Len(s) : s[i] = ch /\ \A j \in (i + 1)..Len(s) : s[j] # ch) - 1
    ELSE -1

\* String.prototype.indexOf: the 0-based index of the first ch, -1 without one.
IndexOf(s, ch) ==
    IF \E i \in 1..Len(s) : s[i] = ch
    THEN (CHOOSE i \in 1..Len(s) : s[i] = ch /\ \A j \in 1..(i - 1) : s[j] # ch) - 1
    ELSE -1

\* The index String.prototype.slice makes of an argument: a negative one
\* counts from the end, and the result stays within the string.
SliceIndex(s, i) ==
    IF i < 0 THEN (IF Len(s) + i < 0 THEN 0 ELSE Len(s) + i)
    ELSE IF i > Len(s) THEN Len(s) ELSE i

\* String.prototype.slice( from, to ): the characters at the 0-based
\* indices from .. to - 1.
Slice(s, from, to) ==
    LET a == SliceIndex(s, from)
        b == SliceIndex(s, to)
    IN IF a < b THEN SubSeq(s, a + 1, b) ELSE <<>>

ParseMessage(data) ==
    LET marker == IndexOf(data, ":")
    IN [command |-> Slice(data, 0, marker),
        data |-> Slice(data, marker + 1, Len(data))]

Parse ==
    /\ parsed = NotParsed
    /\ parsed' = ParseMessage(frame)
    /\ UNCHANGED <<store, isIndexing, channel, listeners, hooked, changeResolver,
                   allocated, calls, log, frame, ghost>>

ParseInit ==
    /\ store = [i \in AllIds |-> Absent]
    /\ isIndexing = FALSE
    /\ channel = "ch1"
    /\ listeners = [c \in Channels |-> IF c = "ch1" THEN 1 ELSE 0]
    /\ hooked = [c \in Channels |-> c = "ch1"]
    /\ changeResolver = Undefined
    /\ allocated = {}
    /\ calls = <<>>
    /\ log = <<>>
    /\ frame \in Frames
    /\ parsed = NotParsed
    /\ ghost = GhostOf(store)

ParseNext == Parse

ParseSpec == ParseInit /\ [][ParseNext]_vars

(***************************************************************************)
(* The bucket's specification.                                             *)
(***************************************************************************)
Callbacks == {Undefined, Fn, FnThrows}

Next ==
    \/ \E id \in Ids, data \in Data, form \in UpdateForms : Update(id, data, form)
    \/ \E data \in Data, cb \in Callbacks : Add(data, cb)
    \/ \E id \in Ids, cb \in Callbacks : Remove(id, cb)
    \/ \E id \in Ids, cb \in Callbacks : Get(id, cb)
    \/ \E cb \in Callbacks : Find(cb)
    \/ \E id \in Ids, cb \in Callbacks : Touch(id, cb)
    \/ \E id \in Ids, cb \in Callbacks : GetVersion(id, cb)
    \/ \E id \in Ids, cb \in Callbacks : GetRevisions(id, cb)
    \/ \E cb \in Callbacks : HasLocalChanges(cb)
    \/ Reload
    \/ \E c \in Channels : SetChannel(c)
    \/ \E r \in Resolvers : BeforeNetworkChange(r)
    \/ \E c \in Channels, id \in Ids : NetworkChange(c, id)
    \/ \E c \in Channels, ev \in ChannelUpdateEvents : ChannelUpdate(c, ev)
    \/ \E c \in Channels, id \in Ids : ChannelRemove(c, id)
    \/ \E c \in Channels, b \in BOOLEAN : ChannelIndexingStateChange(c, b)
    \/ \E c \in Channels : ChannelIndex(c)
    \/ \E c \in Channels : ChannelErrorEvent(c)
    \/ \E k \in 1..Len(calls) : StoreUpdateOk(k)
    \/ \E k \in 1..Len(calls) : StoreUpdateFail(k)
    \/ \E k \in 1..Len(calls) : ChannelUpdateResolved(k)
    \/ \E k \in 1..Len(calls) : StoreRemoveOk(k)
    \/ \E k \in 1..Len(calls) : StoreRemoveFail(k)
    \/ \E k \in 1..Len(calls) : StoreGetOk(k)
    \/ \E k \in 1..Len(calls) : StoreFindOk(k)
    \/ \E k \in 1..Len(calls) : TouchGetOk(k)
    \/ \E k \in 1..Len(calls) : LocalStateGetOk(k)
    \/ \E k \in 1..Len(calls) : StoreReadFail(k)
    \/ \E k \in 1..Len(calls) : ChannelCallResolved(k)

Spec == Init /\ [][Next]_vars

(***************************************************************************)
(* Reading the log.                                                        *)
(***************************************************************************)
\* The places in the log of the effects eff of call k that succeeded.
Effects(k, eff) ==
    {i \in 1..Len(log) : log[i].call = k /\ log[i].eff = eff /\ log[i].ok}

\* The places in the log of the store operations of call k that failed.
Failures(k) ==
    {i \in 1..Len(log) : log[i].call = k /\ ~log[i].ok}

\* The places in the log where call k emitted the event `name`.
Emitted(k, name) ==
    {i \in 1..Len(log) : log[i].call = k /\ log[i].eff = "emit" /\ log[i].args[1] = name}

\* The places in the log where call k called the channel.
ChannelCalls(k) ==
    {i \in 1..Len(log) : log[i].call = k
        /\ log[i].eff \in {"channel.update", "channel.remove", "channel.getVersion",
                           "channel.getRevisions", "channel.hasLocalChanges",
                           "channel.reload"}}

\* The places in the log where call k read or wrote the store.
StoreOps(k) ==
    {i \in 1..Len(log) : log[i].call = k
        /\ log[i].eff \in {"store.update", "store.remove", "store.get", "store.find"}}

\* The calls that run Bucket.prototype.update.
UpdateCalls ==
    {k \in 1..Len(calls) : calls[k].api \in {"update", "add", "touch", "onChannelUpdate"}
                           /\ calls[k].state # "unheard"}

\* The calls that run Bucket.prototype.remove.
RemoveCalls ==
    {k \in 1..Len(calls) : calls[k].api \in {"remove", "onChannelRemove"}
                           /\ calls[k].state # "unheard"}

(***************************************************************************)
(* C1.  Every update whose store write succeeds writes the store, then     *)
(* calls channel.update with the stored object, and only once the channel  *)
(* has answered emits exactly one `update` event carrying the id, the data *)
(* of the object the channel returned and the remote info; no `update`     *)
(* event comes before the store write and the channel call.                *)
(***************************************************************************)
C1_UpdateOrder ==
    \A k \in UpdateCalls :
        LET c == calls[k]
            W == Effects(k, "store.update")
            Ch == Effects(k, "channel.update")
            E == Emitted(k, "update")
        IN /\ Cardinality(W) <= 1 /\ Cardinality(Ch) <= 1 /\ Cardinality(E) <= 1
           /\ \A ch \in Ch : \E w \in W :
                /\ w < ch
                /\ log[w].args[1] = c.id /\ log[w].args[2] = c.data
                /\ log[ch].args[2].id = c.id /\ log[ch].args[2].data = c.data
           /\ \A e \in E : \E w \in W, ch \in Ch :
                /\ w < ch /\ ch < e
                /\ c.pc = "done"
                /\ log[e].args = <<"update", c.id, log[ch].args[2].data, c.remoteUpdateInfo>>
           /\ (W # {}) => (Ch # {})
           /\ (W # {} /\ c.pc = "done") => (E # {})
           /\ (c.pc = "channelUpdate") => (W # {} /\ E = {})

C1_Witness ==
    \E k \in UpdateCalls :
        /\ calls[k].api = "update"
        /\ calls[k].pc = "done"
        /\ Emitted(k, "update") # {}
        /\ \E j \in 1..Len(calls) : j # k /\ calls[j].pc # "done"

(***************************************************************************)
(* C2.  channel.update gets sync = true whenever the caller of update did  *)
(* not pass sync = false (no options, null options, a callback in the      *)
(* place of the remote info or of the options, options without a sync      *)
(* key), and gets a false sync only when the caller passed sync = false.   *)
(***************************************************************************)
\* The caller passed an options object whose sync key is false.
PassedSyncFalse(raw) ==
    /\ raw[2].t = "object"
    /\ raw[2].hasSync
    /\ raw[2].sync = JsFalse

C2_SyncDefaultsToTrue ==
    \A k \in 1..Len(calls) : \A i \in Effects(k, "channel.update") :
        (calls[k].api = "update") =>
            /\ ~PassedSyncFalse(calls[k].raw) => log[i].args[3] = JsTrue
            /\ ~Truthy(log[i].args[3]) => PassedSyncFalse(calls[k].raw)

(***************************************************************************)
(* C3.  Every remove whose store removal succeeds deletes the object from  *)
(* the store, then emits exactly one `remove` event for the id, then calls *)
(* channel.remove for the id exactly once; neither comes before the store  *)
(* removal.                                                                *)
(***************************************************************************)
C3_RemoveOrder ==
    \A k \in RemoveCalls :
        LET c == calls[k]
            R == Effects(k, "store.remove")
            E == Emitted(k, "remove")
            Ch == Effects(k, "channel.remove")
        IN /\ Cardinality(R) <= 1 /\ Cardinality(E) <= 1 /\ Cardinality(Ch) <= 1
           /\ (R # {}) => (E # {} /\ Ch # {})
           /\ \A e \in E : /\ \E r \in R : r < e /\ log[r].args = <<c.id>>
                           /\ log[e].args = <<"remove", c.id>>
           /\ \A ch \in Ch : /\ \E e \in E : e < ch
                             /\ log[ch].args[2] = c.id

C3_Witness ==
    \E k \in RemoveCalls :
        /\ calls[k].api = "remove"
        /\ calls[k].pc = "done"
        /\ Emitted(k, "remove") # {}
        /\ Effects(k, "channel.remove") # {}

(***************************************************************************)
(* C4.  Every `update` event of the channel the bucket listens to goes     *)
(* through the bucket's update: the event's data is written to the store   *)
(* under the event's id, channel.update is called with sync = false, and   *)
(* the bucket emits `update` with the id, the data and exactly the         *)
(* original, patch and isIndexing of the event.                            *)
(***************************************************************************)
C4_RemoteUpdateApplied ==
    \A k \in 1..Len(calls) :
        (calls[k].api = "onChannelUpdate" /\ calls[k].state # "unheard") =>
            LET c == calls[k]
                ev == Tail(c.raw)
                W == Effects(k, "store.update")
                Ch == Effects(k, "channel.update")
                E == Emitted(k, "update")
            IN /\ (c.pc = "storeUpdate") => (c.id = ev[1] /\ c.data = ev[2])
               /\ \A w \in W : log[w].args[1] = ev[1] /\ log[w].args[2] = ev[2]
               /\ \A ch \in Ch : log[ch].args[3] = JsFalse
               /\ \A e \in E :
                    log[e].args = <<"update", ev[1], ev[2],
                                    [t |-> "object", original |-> ev[3], patch |-> ev[4],
                                     isIndexing |-> ev[5]]>>
               /\ (c.pc = "done" /\ Failures(k) = {}) =>
                    (Cardinality(W) = 1 /\ Cardinality(Ch) = 1 /\ Cardinality(E) = 1)

C4_Witness ==
    \E k \in 1..Len(calls) :
        /\ calls[k].api = "onChannelUpdate"
        /\ calls[k].pc = "done"
        /\ Effects(k, "channel.update") # {}
        /\ Emitted(k, "update") # {}

(***************************************************************************)
(* C5.  The local state the hook hands to the channel for an inbound       *)
(* change.  As claimed: the value of the most recently installed resolver  *)
(* when that value is not null, the data the store holds for the id        *)
(* otherwise.                                                              *)
(***************************************************************************)
\* The resolver most recently installed before call k, undefined without one.
LastResolver(k) ==
    LET S == {j \in 1..(k - 1) : calls[j].api = "beforeNetworkChange"}
    IN IF S = {} THEN Undefined
       ELSE calls[CHOOSE j \in S : \A i \in S : i <= j].data

\* The value that resolver gave for call k, null without a resolver.
ResolverValue(k) ==
    IF LastResolver(k).t = "function" THEN LastResolver(k).ret ELSE Null

\* The hook of call k answered with the data store.get reported for its id.
AnsweredFromStore(k) ==
    \E i \in Effects(k, "store.get") :
        /\ log[i].args[1] = calls[k].id
        /\ calls[k].value = IF log[i].args[2] = Null THEN Undefined
                            ELSE log[i].args[2].data

\* The hooks that have answered.
AnsweredHooks ==
    {k \in 1..Len(calls) : calls[k].api = "networkChange" /\ calls[k].pc = "done"
                           /\ calls[k].state = "fulfilled"}

C6_StoreErrorPropagates ==
    \A k \in 1..Len(calls) :
        (calls[k].api \in {"get", "update", "remove", "find"} /\ Failures(k) # {}) =>
            /\ calls[k].state = "rejected"
            /\ calls[k].value = StoreError
            /\ (calls[k].callback.t = "function") => (calls[k].cbCalls = << <<StoreError>> >>)
            /\ ChannelCalls(k) = {}
            /\ Emitted(k, "update") = {} /\ Emitted(k, "remove") = {}

(***************************************************************************)
(* C7.  When the store fails while the bucket applies an `update` or       *)
(* `remove` event of the channel, the bucket emits an `error` event that   *)
(* carries the store's error.                                              *)
(***************************************************************************)
C7_InboundStoreErrorEmitted ==
    \A k \in 1..Len(calls) :
        (calls[k].api \in {"onChannelUpdate", "onChannelRemove"} /\ calls[k].pc = "done") =>
            \A f \in Failures(k) :
                \E j \in (f + 1)..Len(log) :
                    log[j].eff = "emit" /\ log[j].args = <<"error", StoreError>>

EmittedAny(k) == {i \in 1..Len(log) : log[i].call = k /\ log[i].eff = "emit"}

\* Call k did nothing but call the channel method of its own name, once.
OnlyAsksChannel(k) ==
    /\ StoreOps(k) = {}
    /\ EmittedAny(k) = {}
    /\ Cardinality(ChannelCalls(k)) = 1
    /\ \A i \in ChannelCalls(k) : log[i].eff = "channel." \o calls[k].api

C9_AllFourPassThrough ==
    \A k \in 1..Len(calls) :
        (calls[k].api \in {"getVersion", "getRevisions", "touch", "reload"}) =>
            (StoreOps(k) = {} /\ EmittedAny(k) = {})

(***************************************************************************)
(* C9, amended.  getVersion, getRevisions and reload only call the channel *)
(* and neither read nor write the store nor emit a bucket event.  touch is *)
(* no pass-through: it first reads the object from the store and, when     *)
(* there is one, runs update on it.                                        *)
(***************************************************************************)
C9_ThreePassThrough ==
    \A k \in 1..Len(calls) :
        /\ (calls[k].api \in {"getVersion", "getRevisions", "reload"}) => OnlyAsksChannel(k)
        /\ (calls[k].api = "touch" /\ calls[k].pc # "touchGet") =>
             \E i \in StoreOps(k) :
                /\ log[i].eff = "store.get"
                /\ \A j \in 1..Len(log) : (log[j].call = k) => (i <= j)

C9_Witness ==
    \E j, k \in 1..Len(calls) :
        /\ calls[j].api = "reload"
        /\ calls[k].api \in {"getVersion", "getRevisions"}
        /\ calls[k].pc = "done"
        /\ calls[k].cbCalls # <<>>

(***************************************************************************)
(* C10.  parse_message splits a frame that holds a ':' at the first ':':   *)
(* the command is the text before it and holds no ':', the data is all     *)
(* the text after it, further ':' included, and command, ':' and data put  *)
(* together give the frame back.                                           *)
(***************************************************************************)
C10_SplitAtFirstColon ==
    (parsed # NotParsed /\ \E i \in 1..Len(frame) : frame[i] = ":") =>
        LET m == CHOOSE i \in 1..Len(frame) :
                    frame[i] = ":" /\ \A j \in 1..(i - 1) : frame[j] # ":"
        IN /\ parsed.command = SubSeq(frame, 1, m - 1)
           /\ \A i \in 1..Len(parsed.command) : parsed.command[i] # ":"
           /\ parsed.data = SubSeq(frame, m + 1, Len(frame))
           /\ parsed.command \o <<":">> \o parsed.data = frame

C10_Witness ==
    /\ frame = <<"0", ":", "a", ":">>
    /\ parsed = [command |-> <<"0">>, data |-> <<"a", ":">>]

(***************************************************************************)
(* C11.  Per-key FIFO: of two local updates of one id, the channel is      *)
(* handed the data of the earlier call before the data of the later call,  *)
(* the two `update` events come in call order, and the store write of the  *)
(* later call is the last one, so that the store ends with its data.       *)
(***************************************************************************)
\* The local updates: calls of Bucket.prototype.update made by the application.
LocalUpdates == {k \in 1..Len(calls) : calls[k].api = "update"}

\* The place in the log of the one effect eff of call k.
At(k, eff) == CHOOSE i \in Effects(k, eff) : TRUE

\* The place in the log of the one `update` event of call k.
UpdateEventAt(k) == CHOOSE i \in Emitted(k, "update") : TRUE

C11_PerKeyFifo ==
    \A j \in LocalUpdates : \A k \in LocalUpdates :
        (/\ j < k
         /\ calls[j].id = calls[k].id
         /\ calls[j].pc = "done" /\ calls[k].pc = "done"
         /\ Failures(j) = {} /\ Failures(k) = {})
        => /\ At(j, "channel.update") < At(k, "channel.update")
           /\ UpdateEventAt(j) < UpdateEventAt(k)
           /\ At(j, "store.update") < At(k, "store.update")

(***************************************************************************)
(* C12.  An inbound change whose ev is not above the ghost version of its  *)
(* id is discarded: the step that delivers it changes neither the ghost    *)
(* nor the store, runs no handler of the bucket (so that no store write    *)
(* and no `update` event can follow from it) and emits nothing; and no     *)
(* step ever lowers the ghost version of an id.                            *)
(***************************************************************************)
\* The step hands the channel a change of an id whose ghost already is at
\* the change's version or beyond it.
Redelivery ==
    /\ Len(log') = Len(log) + 1
    /\ log'[Len(log')].eff = "change"
    /\ log'[Len(log')].args[2] <= ghost[log'[Len(log')].args[1]].version

C12_RedeliveryDiscarded ==
    [][/\ Redelivery => /\ ghost' = ghost
                        /\ store' = store
                        /\ calls' = calls
                        /\ ~log'[Len(log')].ok
       /\ \A id \in Ids : ghost'[id].version >= ghost[id].version]_vars

\* A change was applied and written to the store, and was then delivered
\* again and dropped.
C12_Witness ==
    \E i \in Changes : \E j \in Changes :
        /\ i < j
        /\ log[i].ok /\ ~log[j].ok
        /\ log[i].args = log[j].args
        /\ \E k \in 1..Len(calls) :
              /\ calls[k].pc = "done"
              /\ calls[k].id = log[i].args[1]
              /\ Emitted(k, "update") # {}

(***************************************************************************)
(* C13.  touch re-submits the stored object and never changes local data:  *)
(* for an id the store holds it calls channel.update exactly once, with    *)
(* sync = true and the stored data, and its store write does not replace   *)
(* what a channel `update` event wrote since touch read the object; for an *)
(* id the store does not hold it writes nothing, calls no channel and      *)
(* emits nothing.                                                          *)
(***************************************************************************)
\* The calls of Bucket.prototype.touch that are over and met no store error.
TouchesDone ==
    {k \in 1..Len(calls) : calls[k].api = "touch" /\ calls[k].pc = "done"
                           /\ Failures(k) = {}}

\* The places between g and w where a channel `update` event wrote id.
ChangedBetween(id, g, w) ==
    {i \in (g + 1)..(w - 1) : /\ log[i].eff = "store.update"
                              /\ log[i].ok
                              /\ log[i].args[1] = id
                              /\ calls[log[i].call].api = "onChannelUpdate"}

\* The write at w puts back what the last of these writes left.
Preserves(id, g, w) ==
    LET between == ChangedBetween(id, g, w)
        last == CHOOSE i \in between : \A j \in between : j <= i
    IN between # {} => log[last].args[2] = log[w].args[2]

C13_TouchKeepsLocalData ==
    \A k \in TouchesDone :
        LET g == At(k, "store.get")
            obj == log[g].args[2]
        IN IF obj = Null
           THEN /\ StoreOps(k) = {g}
                /\ ChannelCalls(k) = {}
                /\ EmittedAny(k) = {}
           ELSE /\ Cardinality(Effects(k, "channel.update")) = 1
                /\ log[At(k, "channel.update")].args[2].data = obj.data
                /\ log[At(k, "channel.update")].args[3] = JsTrue
                /\ Preserves(calls[k].id, g, At(k, "store.update"))

(***************************************************************************)
(* C14.  Every store write that update makes carries the isIndexing value  *)
(* the channel delivered last with `indexingStateChange` before update     *)
(* handed the write to the store (false before any such event), and the    *)
(* bucket emits `indexing` exactly once for every delivered                *)
(* indexingStateChange( true ) and never for indexingStateChange( false ). *)
(***************************************************************************)
\* The indexingStateChange events the bucket's handler has run for.
IndexingStateChanges ==
    {k \in 1..Len(calls) : /\ calls[k].api = "onChannelIndexingStateChange"
                           /\ calls[k].state # "unheard"}

\* The value the last of them delivered.
LastIndexingState ==
    IF IndexingStateChanges = {} THEN FALSE
    ELSE calls[CHOOSE k \in IndexingStateChanges :
                  \A j \in IndexingStateChanges : j <= k].data.v

\* The calls for which this step hands a write to the store.
StartsStoreUpdate ==
    {k \in 1..Len(calls') : /\ calls'[k].pc = "storeUpdate"
                            /\ (k > Len(calls) \/ calls[k].pc # "storeUpdate")}

\* The entries this step adds to the log.
Logged == (Len(log) + 1)..Len(log')

\* The step delivers indexingStateChange( b ) to the bucket's handler.
DeliversIndexingState(b) ==
    /\ Len(calls') > Len(calls)
    /\ calls'[Len(calls')].api = "onChannelIndexingStateChange"
    /\ calls'[Len(calls')].state # "unheard"
    /\ calls'[Len(calls')].data = JsBool(b)

C14_IndexingFlag ==
    [][/\ \A k \in StartsStoreUpdate : calls'[k].isIndexing = LastIndexingState
       /\ \A i \in Logged :
            log'[i].eff = "store.update"
            => /\ log'[i].args[3] = JsBool(calls'[log'[i].call].isIndexing)
               /\ log'[i].ok => store'[log'[i].args[1]].isIndexing
                                   = calls'[log'[i].call].isIndexing
       /\ Cardinality({i \in Logged : log'[i].eff = "emit" /\ log'[i].args[1] = "indexing"})
            = IF DeliversIndexingState(TRUE) THEN 1 ELSE 0]_vars

\* The channel announced that it is indexing, the bucket emitted `indexing`,
\* and an update made afterwards wrote an object flagged as indexed.
C14_Witness ==
    \E j \in IndexingStateChanges : \E k \in UpdateCalls :
        /\ j < k
        /\ calls[j].data = JsTrue
        /\ Cardinality(Emitted(j, "indexing")) = 1
        /\ Effects(k, "store.update") # {}
        /\ log[At(k, "store.update")].args[3] = JsTrue
        /\ store[calls[k].id] # Absent
        /\ store[calls[k].id].isIndexing

(***************************************************************************)
(* C15.  A local update of an id followed by a local remove of the same    *)
(* id: once both are over, the store removal came after the store write    *)
(* (so that the store holds no object for the id), the channel was told of *)
(* the update before it was told of the removal, and the `update` event of *)
(* the id came before its `remove` event.                                  *)
(***************************************************************************)
\* The local removals: calls of Bucket.prototype.remove made by the application.
LocalRemoves == {k \in 1..Len(calls) : calls[k].api = "remove"}

\* The place in the log of the one `remove` event of call k.
RemoveEventAt(k) == CHOOSE i \in Emitted(k, "remove") : TRUE

C15_UpdateBeforeRemove ==
    \A j \in LocalUpdates : \A k \in LocalRemoves :
        (/\ j < k
         /\ calls[j].id = calls[k].id
         /\ calls[j].pc = "done" /\ calls[k].pc = "done"
         /\ Failures(j) = {} /\ Failures(k) = {})
        => /\ At(j, "store.update") < At(k, "store.remove")
           /\ At(j, "channel.update") < At(k, "channel.remove")
           /\ UpdateEventAt(j) < RemoveEventAt(k)

(***************************************************************************)
(* C16.  Whatever setChannel calls were made, the bucket's handlers are    *)
(* registered once on the current channel and on no other; an event of a   *)
(* channel that is not the current one runs no handler, so that it causes  *)
(* no store operation, no channel call and no event of the bucket; an      *)
(* event of the current channel runs its handler, and no event runs its    *)
(* handler more than once.                                                 *)
(***************************************************************************)
\* The call records that stand for an event of a channel.
ChannelEvents ==
    {k \in 1..Len(calls) :
        calls[k].api \in {"onChannelUpdate", "onChannelRemove",
                          "onChannelIndexingStateChange", "onChannelIndex",
                          "onChannelError"}}

\* The channel that was the bucket's when call k was made: the argument of
\* the last setChannel before it, the constructor's channel without one.
ChannelAt(k) ==
    LET sets == {j \in 1..(k - 1) : calls[j].api = "setChannel"}
    IN IF sets = {} THEN "ch1"
       ELSE calls[CHOOSE j \in sets : \A i \in sets : i <= j].id

\* The places in the log of everything call k did.
AllEffects(k) == {i \in 1..Len(log) : log[i].call = k}

C16_Registered ==
    /\ listeners = [c \in Channels |-> IF c = channel THEN 1 ELSE 0]
    /\ channel = ChannelAt(Len(calls) + 1)
    /\ \A k \in ChannelEvents :
          /\ (calls[k].state = "unheard") <=> (calls[k].raw[1] # ChannelAt(k))
          /\ calls[k].state = "unheard" => AllEffects(k) = {}

C16_HandlersOnCurrentChannel ==
    [] C16_Registered /\ [][Len(calls') <= Len(calls) + 1]_vars

\* The channel in place was set again and one of its events ran its handler
\* to the end.
ResetChannelHeard ==
    \E j \in 1..Len(calls) : \E k \in ChannelEvents :
        /\ j < k
        /\ calls[j].api = "setChannel" /\ calls[j].id = "ch1"
        /\ calls[k].raw[1] = "ch1" /\ calls[k].state # "unheard"
        /\ AllEffects(k) # {}

\* A second channel was set and an event of the first went unheard.
C16_Witness ==
    \E j \in 1..Len(calls) : \E k \in ChannelEvents :
        /\ j < k
        /\ calls[j].api = "setChannel" /\ calls[j].id = "ch2"
        /\ calls[k].raw[1] = "ch1" /\ calls[k].state = "unheard"

(***************************************************************************)
(* C17.  A callback passed to an operation of the bucket is called at most *)
(* once per call, not before the operation has settled and exactly once    *)
(* when it has: with ( null, result ) when the operation succeeded and     *)
(* with ( error ) when it failed, also when the callback throws.  Nothing  *)
(* but a function is ever called.                                          *)
(***************************************************************************)
\* The result of call k: what its last store or channel step answered.
ResultOf(k) ==
    LET api == calls[k].api
    IN IF api \in {"update", "add", "onChannelUpdate"}
            THEN log[At(k, "channel.update")].args[2]
       ELSE IF api = "touch"
            THEN IF Effects(k, "channel.update") = {} THEN Undefined
                 ELSE log[At(k, "channel.update")].args[2]
       ELSE IF api = "get" THEN log[At(k, "store.get")].args[2]
       ELSE IF api = "find" THEN log[At(k, "store.find")].args[1]
       ELSE IF api \in {"getVersion", "getRevisions", "hasLocalChanges"}
            THEN [t |-> "result", v |-> api]
       ELSE Undefined

C17_CallbackOnce ==
    \A k \in 1..Len(calls) :
        LET c == calls[k]
        IN /\ Len(c.cbCalls) <= 1
           /\ ~IsFunction(c.callback) => c.cbCalls = <<>>
           /\ c.pc # "done" => c.cbCalls = <<>>
           /\ (c.pc = "done" /\ IsFunction(c.callback))
              => /\ Len(c.cbCalls) = 1
                 /\ Failures(k) = {} => c.cbCalls[1] = <<Null, ResultOf(k)>>
                 /\ Failures(k) # {} => c.cbCalls[1] = <<StoreError>>

\* An operation that succeeded has called a callback that throws, and one
\* that failed has called its callback.
C17_Witness ==
    \E j \in 1..Len(calls) : \E k \in 1..Len(calls) :
        /\ calls[j].pc = "done" /\ Throws(calls[j].callback)
        /\ Failures(j) = {} /\ Len(calls[j].cbCalls) = 1
        /\ calls[k].pc = "done" /\ IsFunction(calls[k].callback)
        /\ Failures(k) # {} /\ Len(calls[k].cbCalls) = 1

(***************************************************************************)
(* C18.  A `remove` event of the channel removes the object from the store *)
(* and makes the bucket emit `remove` for the id once, and the removal the *)
(* channel announced is not handed back to it: the handler does not call   *)
(* channel.remove.                                                         *)
(***************************************************************************)
\* The handlers of a channel's `remove` event that are over and met no
\* store error.
RemoteRemovesDone ==
    {k \in 1..Len(calls) : /\ calls[k].api = "onChannelRemove"
                           /\ calls[k].state # "unheard"
                           /\ calls[k].pc = "done"
                           /\ Failures(k) = {}}

C18_RemoteRemoveNotForwarded ==
    \A k \in RemoteRemovesDone :
        /\ Cardinality(Effects(k, "store.remove")) = 1
        /\ Cardinality(Emitted(k, "remove")) = 1
        /\ log[RemoveEventAt(k)].args = <<"remove", calls[k].id>>
        /\ Effects(k, "channel.remove") = {}

(***************************************************************************)
(* C19.  The `update` event of a local update made without remote info,    *)
(* whatever the form of the call ( with or without options, with or        *)
(* without a callback, through update or through add ), carries undefined  *)
(* as its remote info.                                                     *)
(***************************************************************************)
\* The calls of update and add whose caller gave no remote info: the third
\* argument is left out or is the callback.
WithoutRemoteInfo ==
    {k \in 1..Len(calls) : /\ calls[k].api \in {"update", "add"}
                           /\ calls[k].raw[1].t \in {"undefined", "function"}}

C19_LocalUpdateHasNoRemoteInfo ==
    \A k \in WithoutRemoteInfo : \A i \in Emitted(k, "update") :
        log[i].args[4] = Undefined

(***************************************************************************)
(* C20.  A frame without a ':' is not parsed into a protocol command:      *)
(* parse_message gives it the empty command.                               *)
(***************************************************************************)
\* Whether the frame s has a ':' in it.
HasColon(s) == \E i \in 1..Len(s) : s[i] = ":"

C20_NoColonNoCommand ==
    (parsed # NotParsed /\ ~HasColon(frame)) => parsed.command = <<>>

=============================================================================
